---- MODULE Spec2Model ----
(***************************************************************************)
(* Model of miro-insights-risks: the reconciliation pipeline of            *)
(* miro-poc.ts (extract, ensure frames, de-dupe, layout, batched create,   *)
(* verify, report) over the REST transport and the stdio (MCP) transport   *)
(* of transport-mcp.ts, and the retry wrapper backoff.                     *)
(*                                                                         *)
(* Texts are sequences of tokens, so that decorate, trim and includes are  *)
(* computed the way the code computes them.                                *)
(***************************************************************************)
EXTENDS Integers, Sequences, FiniteSets, TLC

\* ------------------------------------------------------------------ bounds
\* Number of pipeline runs against the one board.
MaxRuns == 2
\* Longest note list handed to bulkCreateStickies by a direct caller, and the
\* number of such calls.
MaxBatch == 3
MaxCalls == 1
\* Requests one transport sends (the initialize request and the tool calls)
\* and lines its child writes.
MaxRequests == 3
MaxLines == 2
\* Texts handed to one call of gridLayoutInFrame.
MaxTexts == 7

\* ------------------------------------------------------- program constants
FRAME_W == 1400
FRAME_H == 900
InsightsX == 0 - 900
RisksX == 900
FrameY == 0
PageLimit == 50
DefaultColumns == 3
DefaultGap == 20
DefaultPad == 40
DefaultNoteW == 180
DefaultNoteH == 120
MainChunkSize == 20
MaxItems == 12
DefaultMaxAttempts == 5
InitialDelay == 500
MaxDelay == 8000

\* ------------------------------------------------------------ text helpers
Min(a, b) == IF a < b THEN a ELSE b

\* Array.prototype.slice(a, b) on a 0-based array.
Slice(s, a, b) == SubSeq(s, a + 1, Min(b, Len(s)))

\* String.prototype.includes.
Includes(s, sub) ==
  \E i \in 0..(Len(s) - Len(sub)) : SubSeq(s, i + 1, i + Len(sub)) = sub

\* The tokens that are white space to String.prototype.trim.
WhiteSpace == {" ", "\n", "\n\n"}

RECURSIVE TrimLeft(_)
TrimLeft(s) == IF s # <<>> /\ Head(s) \in WhiteSpace THEN TrimLeft(Tail(s)) ELSE s

RECURSIVE TrimRight(_)
TrimRight(s) ==
  IF s # <<>> /\ s[Len(s)] \in WhiteSpace THEN TrimRight(SubSeq(s, 1, Len(s) - 1)) ELSE s

\* String.prototype.trim.
Trim(s) == TrimRight(TrimLeft(s))

RECURSIVE SelectContent(_)
SelectContent(s) ==
  IF s = <<>> THEN <<>> ELSE <<Head(s).content>> \o SelectContent(Tail(s))

\* The marker `[runId:${runId}]`.
Marker(runId) == <<"[runId:", runId, "]">>

\* decorate = (s) => `${s}\n\n[runId:${extracted.runId}]`
decorate(s, runId) == s \o <<"\n\n">> \o Marker(runId)

\* ------------------------------------------------- extraction collaborator
Sources == {"T1", "T2"}

\* sha256(transcript).slice(0, 10): one identifier per transcript.
RunIdOf(src) == IF src = "T1" THEN "r1" ELSE "r2"

\* What the extraction returns for a transcript (temperature 0): the value
\* JSON.parse yields, with has* telling whether the key holds an array. The
\* second insight of T1 is a text that itself spells the marker of T2.
LLMOutput(src) ==
  IF src = "T1"
    THEN [hasInsights |-> TRUE,
          insights |-> << <<"a">>, <<"a", "\n\n", "[runId:", "r2", "]">> >>,
          hasRisks |-> TRUE, risks |-> << <<"c">> >>]
    ELSE [hasInsights |-> TRUE, insights |-> << <<"a">> >>,
          hasRisks |-> TRUE, risks |-> <<>>]

\* Values the model may return that are not of the expected shape: a key
\* missing, an element that is blank.
Misshapen(src) ==
  { [LLMOutput(src) EXCEPT !.hasRisks = FALSE, !.risks = <<>>],
    [LLMOutput(src) EXCEPT !.hasInsights = FALSE, !.insights = <<>>],
    [LLMOutput(src) EXCEPT !.risks = Append(@, <<" ", "\n\n">>)],
    [LLMOutput(src) EXCEPT !.insights = Append(@, <<>>)] }

\* What the Messages API may answer for a transcript.
Replies(src) ==
  { [ok |-> FALSE, json |-> FALSE, obj |-> LLMOutput(src)],
    [ok |-> TRUE, json |-> FALSE, obj |-> LLMOutput(src)] }
  \cup { [ok |-> TRUE, json |-> TRUE, obj |-> o] :
           o \in {LLMOutput(src)} \cup Misshapen(src) }

NoReply ==
  [ok |-> FALSE, json |-> FALSE,
   obj |-> [hasInsights |-> FALSE, insights |-> <<>>, hasRisks |-> FALSE, risks |-> <<>>]]

validateInsightsOnly(obj) ==
  /\ obj.hasInsights
  /\ \A i \in 1..Len(obj.insights) : Len(Trim(obj.insights[i])) > 0

\* validateLLMOutput: both keys hold arrays whose every element is a string
\* that is non-empty after trim.
validateLLMOutput(obj) ==
  /\ obj.hasInsights
  /\ \A i \in 1..Len(obj.insights) : Len(Trim(obj.insights[i])) > 0
  /\ obj.hasRisks
  /\ \A i \in 1..Len(obj.risks) : Len(Trim(obj.risks[i])) > 0

\* ------------------------------------------------------------------- board
TitleInsights == <<"Insights">>
TitleRisks == <<"Risks">>
NoId == 0
NoFrame == [id |-> NoId, title |-> <<>>, x |-> 0, y |-> 0, width |-> 0, height |-> 0]

BoardFrame(id, title, x, y, w, h) ==
  [id |-> id, kind |-> "frame", title |-> title, content |-> <<>>,
   x |-> x, y |-> y, width |-> w, height |-> h]

\* What create_shape leaves on the board: a rectangle whose text is the title.
BoardShape(id, title, x, y, w, h) ==
  [id |-> id, kind |-> "shape", title |-> <<>>, content |-> title,
   x |-> x, y |-> y, width |-> w, height |-> h]

BoardNote(id, content, x, y) ==
  [id |-> id, content |-> content, parent |-> NoId, x |-> x, y |-> y]

ForeignFrame(i) == BoardFrame(i, <<"Other">>, 0, 3000, 100, 100)

\* Boards a run can meet: empty; both frames present (one title padded with
\* blanks); a board whose first page of frames is filled by other frames.
InitialFrames ==
  { <<>>,
    << BoardFrame(1, <<" ", "Insights", " ">>, 0 - 900, 0, FRAME_W, FRAME_H),
       BoardFrame(2, <<"Risks">>, 900, 0, FRAME_W, FRAME_H) >>,
    [i \in 1..PageLimit |-> ForeignFrame(i)] }


\* ------------------------------------------------------------------- state
VARIABLES
  transport,        \* "rest" or "mcp" (--transport)
  frames,           \* the board's frames and shapes, in creation order
  notes,            \* the board's sticky notes, in creation order
  nextId,           \* next identifier the board service hands out
  pc,               \* position of the main flow
  runs,             \* runs started so far
  src,              \* transcript of the current run
  execute,          \* EXECUTE
  extracted,        \* {runId, insights, risks} after decoration
  insightsFrame, risksFrame,
  existingInsights, existingRisks,
  insightsNotes, risksNotes,
  created1, created2,
  summary,
  llmReply,         \* what the extraction call answered in this run
  failedStep,       \* the step of this run whose call threw ("" if none)
  connected, tools, process,   \* McpTransport fields
  lastOp,           \* the last method called on the transport and how it ended
  bNotes, bChunkSize, bI, bJ, bRes, bAttempts, bOutcomes, bStatus, \* bulkCreateStickies
  bInFlight,        \* positions in bNotes whose create request awaits its outcome
  runWrites,        \* mutating requests this run has sent to the board
  runCreated,       \* sticky notes this run has put on the board
  runListed,        \* existing-items queries of this run that have completed
  succeeded,        \* transcripts whose execute run created every item
  boState, attempt, delay, lastErr, boThrown, boResult, boCalls, boSleeps, boErrs, boLog,
  miroCall,         \* a miroGET / miroPOST in progress and how it ended
  messageId,        \* McpTransport.messageId
  reqs,             \* id -> the promise of the request sent with that id
  listeners,        \* 'data' listeners on the child's stdout, in order of attachment
  timers,           \* ids of the requests whose setTimeout has not fired yet
  stdin,            \* the requests written to the child's stdin, each with
                    \* whether its listener was attached when it was written
  pipe,             \* what the child wrote to stdout and the client has not read
  delivered,        \* what the 'data' events have delivered so far
  emitted,          \* lines the child has written
  gFrame, gItems, gOpts,  \* arguments of a call of gridLayoutInFrame
  gOut              \* what that call returned

boardVars == <<frames, notes, nextId>>
flowVars == <<pc, runs, src, execute, extracted, insightsFrame, risksFrame,
              existingInsights, existingRisks, insightsNotes, risksNotes,
              created1, created2, summary, llmReply, failedStep>>
mcpVars == <<connected, tools, process, lastOp>>
batchVars == <<bNotes, bChunkSize, bI, bJ, bRes, bAttempts, bOutcomes, bStatus, bInFlight>>
histVars == <<runWrites, runCreated, runListed, succeeded>>
boVars == <<boState, attempt, delay, lastErr, boThrown, boResult, boCalls, boSleeps,
            boErrs, boLog, miroCall>>
stdioVars == <<messageId, reqs, listeners, timers, stdin, pipe, delivered, emitted>>
layoutVars == <<gFrame, gItems, gOpts, gOut>>
vars == <<transport, boardVars, flowVars, mcpVars, batchVars, histVars, boVars,
          stdioVars, layoutVars>>

EmptyResults == [ok |-> 0, created |-> <<>>, failed |-> <<>>]
NoExtract == [runId |-> "", insights |-> <<>>, risks |-> <<>>]
NoSummary == [created |-> 0, failed |-> 0, insightsWithRunId |-> 0, risksWithRunId |-> 0]
NoErr == [status |-> 0, code |-> 0]
NoOp == [op |-> "none", ready |-> FALSE, disc |-> FALSE, result |-> "none",
         error |-> "", wrote |-> 0]
NoMiroCall == [state |-> "none", err |-> NoErr]

\* The tool list connect() installs once the initialize response is seen.
KnownTools ==
  {"get_board_info", "list_boards", "create_sticky_note", "bulk_create_items",
   "create_shape", "get_frames", "get_items_in_frame"}

\* The names each pattern of the transport accepts, among the names above.
PatFrames == {"get_frames"}
PatCreateShape == {"create_shape"}
PatItemsInFrame == {"get_items_in_frame"}
PatCreateSticky == {"create_sticky_note"}

\* findTool(patterns) # null
HasTool(pattern) == tools \cap pattern # {}

InitBatchVars ==
  /\ bNotes = <<>> /\ bChunkSize = MainChunkSize /\ bI = 0 /\ bJ = 0
  /\ bRes = EmptyResults /\ bAttempts = <<>> /\ bOutcomes = <<>> /\ bStatus = "idle"
  /\ bInFlight = {}

InitBackoffIdle ==
  /\ boState = "idle" /\ attempt = 0 /\ delay = 0 /\ lastErr = NoErr
  /\ boThrown = NoErr /\ boResult = 0 /\ boCalls = 0 /\ boSleeps = <<>>
  /\ boErrs = <<>> /\ boLog = <<>> /\ miroCall = NoMiroCall

InitStdioVars ==
  /\ messageId = 1 /\ reqs = <<>> /\ listeners = <<>> /\ timers = {}
  /\ stdin = <<>> /\ pipe = <<>> /\ delivered = <<>> /\ emitted = 0

\* opts of gridLayoutInFrame after its defaults (opts?.columns ?? 3, ...).
DefaultOpts ==
  [columns |-> DefaultColumns, gap |-> DefaultGap, pad |-> DefaultPad,
   noteW |-> DefaultNoteW, noteH |-> DefaultNoteH]

NoLayout == [done |-> FALSE, stickies |-> <<>>]

InitLayoutVars ==
  /\ gFrame = NoFrame /\ gItems = <<>> /\ gOpts = DefaultOpts /\ gOut = NoLayout

InitFlowVars ==
  /\ pc = "idle" /\ runs = 0 /\ src = "T1" /\ execute = FALSE
  /\ extracted = NoExtract
  /\ insightsFrame = NoFrame /\ risksFrame = NoFrame
  /\ existingInsights = <<>> /\ existingRisks = <<>>
  /\ insightsNotes = <<>> /\ risksNotes = <<>>
  /\ created1 = EmptyResults /\ created2 = EmptyResults
  /\ summary = NoSummary
  /\ llmReply = NoReply /\ failedStep = ""

Init ==
  /\ transport \in {"rest", "mcp"}
  /\ frames \in InitialFrames
  /\ notes = <<>>
  /\ nextId = 100
  /\ InitFlowVars
  /\ connected = FALSE /\ tools = {} /\ process = FALSE /\ lastOp = NoOp
  /\ InitBatchVars
  /\ runWrites = 0 /\ runCreated = 0 /\ runListed = 0 /\ succeeded = {}
  /\ InitBackoffIdle
  /\ InitStdioVars
  /\ InitLayoutVars

\* ------------------------------------------------------------ main flow
\* A new process of the CLI: arguments parsed, transcript read.
StartRun(t, e) ==
  /\ pc = "idle"
  /\ runs < MaxRuns
  /\ runs' = runs + 1
  /\ src' = t /\ execute' = e
  /\ pc' = "transport"
  /\ UNCHANGED <<layoutVars, stdioVars, transport, boardVars, extracted, insightsFrame, risksFrame,
                 existingInsights, existingRisks, insightsNotes, risksNotes,
                 created1, created2, summary, llmReply, failedStep, mcpVars,
                 batchVars, histVars, boVars>>

\* The process ends (process.exit, the end of the main flow, or an uncaught
\* rejection): nothing of it remains but the board.
ProcessExit ==
  /\ pc \in {"done", "fatal"}
  /\ pc' = "idle"
  /\ src' = "T1" /\ execute' = FALSE
  /\ extracted' = NoExtract
  /\ insightsFrame' = NoFrame /\ risksFrame' = NoFrame
  /\ existingInsights' = <<>> /\ existingRisks' = <<>>
  /\ insightsNotes' = <<>> /\ risksNotes' = <<>>
  /\ created1' = EmptyResults /\ created2' = EmptyResults
  /\ summary' = NoSummary
  /\ llmReply' = NoReply /\ failedStep' = ""
  /\ connected' = FALSE /\ tools' = {} /\ process' = FALSE /\ lastOp' = NoOp
  /\ bNotes' = <<>> /\ bChunkSize' = MainChunkSize /\ bI' = 0 /\ bJ' = 0
  /\ bRes' = EmptyResults /\ bAttempts' = <<>> /\ bOutcomes' = <<>> /\ bStatus' = "idle"
  /\ bInFlight' = {}
  /\ runWrites' = 0 /\ runCreated' = 0 /\ runListed' = 0
  /\ UNCHANGED <<layoutVars, stdioVars, transport, boardVars, runs, succeeded, boVars>>

\* Transport initialisation: RestTransport, or buildMcpTransport (spawn and
\* connect; the connect either sees the initialize response or times out).
InitTransport ==
  /\ pc = "transport"
  /\ \/ /\ transport = "rest"
        /\ pc' = "extract"
        /\ UNCHANGED <<mcpVars, failedStep>>
     \/ /\ transport = "mcp"
        /\ process' = TRUE /\ UNCHANGED lastOp
        /\ \/ /\ connected' = TRUE /\ tools' = KnownTools
              /\ pc' = "extract" /\ UNCHANGED failedStep
           \/ /\ connected' = FALSE /\ tools' = {}
              /\ pc' = "fatal" /\ failedStep' = "transport"
  /\ UNCHANGED <<layoutVars, stdioVars, transport, boardVars, runs, src, execute, extracted, insightsFrame,
                 risksFrame, existingInsights, existingRisks, insightsNotes,
                 risksNotes, created1, created2, summary, batchVars, histVars, boVars,
                 llmReply>>

StepAfterSwallow(threw, next) == next

\* A flow that goes from the containers straight to the delta, without the
\* existing-items queries.
StepAfterUnlisted(threw, next) ==
  IF threw THEN "fatal" ELSE IF next = "list" THEN "delta" ELSE next

\* A flow that starts over from the extraction when a step throws.
StepAfterRestart(threw, next) == IF threw THEN "extract" ELSE next

\* The main flow is one async function without a catch: a step whose call
\* throws ends it, otherwise the next statement runs.
StepAfter(threw, next) == IF threw THEN "fatal" ELSE next

DecorateAll(items, runId) == [i \in 1..Len(items) |-> decorate(items[i], runId)]

\* getInsightsRisksFromClaude and the decoration of its bullets. reply: what
\* the API answered (resp.ok, whether the text parses as JSON, the parsed
\* value).
Extract(reply) ==
  /\ pc = "extract"
  /\ llmReply' = reply
  /\ LET out == reply.obj
         id == RunIdOf(src)
     IN IF reply.ok /\ reply.json /\ validateLLMOutput(out)
          THEN /\ extracted' = [runId |-> id,
                                insights |-> DecorateAll(Slice(out.insights, 0, MaxItems), id),
                                risks |-> DecorateAll(Slice(out.risks, 0, MaxItems), id)]
               /\ pc' = StepAfter(FALSE, "frame1")
               /\ UNCHANGED failedStep
          ELSE /\ extracted' = extracted
               /\ pc' = StepAfter(TRUE, "frame1")
               /\ failedStep' = "extract"
  /\ UNCHANGED <<layoutVars, stdioVars, transport, boardVars, runs, src, execute, insightsFrame, risksFrame,
                 existingInsights, existingRisks, insightsNotes, risksNotes,
                 created1, created2, summary, mcpVars, batchVars, histVars, boVars>>

\* ------------------------------------------------------ ensure containers
\* Index of the first element of list whose trimmed title is the trimmed
\* title asked for (Array.prototype.find), 0 when there is none.
FindFrame(list, title) ==
  LET hits == {i \in 1..Len(list) : Trim(list[i].title) = Trim(title)}
  IN IF hits = {} THEN 0 ELSE CHOOSE i \in hits : \A j \in hits : i <= j

IsFrame(f) == f.kind = "frame"

\* GET /boards/{id}/items?type=frame&limit=50
RestFrameList == Slice(SelectSeq(frames, IsFrame), 0, PageLimit)

\* What the get_frames tool of the child answers.
McpFrameList == SelectSeq(frames, IsFrame)

FrameSpecOf(f, title) ==
  [id |-> f.id, title |-> title, x |-> f.x, y |-> f.y, width |-> f.width,
   height |-> f.height]

\* getOrCreateFrame of miro-poc.ts. getOk, postOk: the outcome of miroGET and
\* of miroPOST. Yields the FrameSpec (NoFrame when the call throws), the
\* board's frames afterwards and the number of write requests sent.
RestGetOrCreateFrame(title, x, y, getOk, postOk) ==
  LET list == RestFrameList
      m == FindFrame(list, title)
  IN IF ~getOk THEN [frame |-> NoFrame, frames |-> frames, writes |-> 0, threw |-> TRUE]
     ELSE IF m # 0
       THEN [frame |-> FrameSpecOf(list[m], title), frames |-> frames, writes |-> 0,
             threw |-> FALSE]
     ELSE IF ~postOk
       THEN [frame |-> NoFrame, frames |-> frames, writes |-> 1, threw |-> TRUE]
     ELSE [frame |-> [id |-> nextId, title |-> title, x |-> x, y |-> y,
                      width |-> FRAME_W, height |-> FRAME_H],
           frames |-> Append(frames, BoardFrame(nextId, title, x, y, FRAME_W, FRAME_H)),
           writes |-> 1, threw |-> FALSE]

\* McpTransport.call throws before any I/O unless connected with a process.
Callable == connected /\ process

\* McpTransport.getOrCreateFrame. getOk: the get_frames call resolved with a
\* list; postOk: the create_shape call resolved with a result object.
McpGetOrCreateFrame(title, x, y, getOk, postOk) ==
  LET list == McpFrameList
      m == IF HasTool(PatFrames) THEN FindFrame(list, title) ELSE 0
  IN IF HasTool(PatFrames) /\ (~Callable \/ ~getOk)
       THEN [frame |-> NoFrame, frames |-> frames, writes |-> 0, threw |-> TRUE]
     ELSE IF m # 0
       THEN [frame |-> FrameSpecOf(list[m], title), frames |-> frames, writes |-> 0,
             threw |-> FALSE]
     ELSE IF ~HasTool(PatCreateShape) \/ ~Callable
       THEN [frame |-> NoFrame, frames |-> frames, writes |-> 0, threw |-> TRUE]
     ELSE IF ~postOk
       THEN [frame |-> NoFrame, frames |-> frames, writes |-> 1, threw |-> TRUE]
     ELSE [frame |-> [id |-> nextId, title |-> title, x |-> x, y |-> y,
                      width |-> FRAME_W, height |-> FRAME_H],
           frames |-> Append(frames, BoardShape(nextId, title, x, y, FRAME_W, FRAME_H)),
           writes |-> 1, threw |-> FALSE]

getOrCreateFrame(title, x, y, getOk, postOk) ==
  IF transport = "rest"
    THEN RestGetOrCreateFrame(title, x, y, getOk, postOk)
    ELSE McpGetOrCreateFrame(title, x, y, getOk, postOk)

\* const insightsFrame = await transport.getOrCreateFrame(BOARD_ID, "Insights", -900, 0, ...)
EnsureInsightsFrame ==
  /\ pc = "frame1"
  /\ \E getOk \in BOOLEAN, postOk \in BOOLEAN :
       LET r == getOrCreateFrame(TitleInsights, InsightsX, FrameY, getOk, postOk)
       IN /\ insightsFrame' = r.frame
          /\ frames' = r.frames
          /\ nextId' = IF r.frames # frames THEN nextId + 1 ELSE nextId
          /\ runWrites' = runWrites + r.writes
          /\ pc' = StepAfter(r.threw, "frame2")
          /\ failedStep' = IF r.threw THEN "frame1" ELSE failedStep
  /\ UNCHANGED <<layoutVars, stdioVars, transport, notes, runs, src, execute, extracted, risksFrame,
                 existingInsights, existingRisks, insightsNotes, risksNotes,
                 created1, created2, summary, mcpVars, batchVars, runCreated, runListed,
                 succeeded, boVars,
                 llmReply>>

\* const risksFrame = await transport.getOrCreateFrame(BOARD_ID, "Risks", 900, 0, ...)
EnsureRisksFrame ==
  /\ pc = "frame2"
  /\ \E getOk \in BOOLEAN, postOk \in BOOLEAN :
       LET r == getOrCreateFrame(TitleRisks, RisksX, FrameY, getOk, postOk)
       IN /\ risksFrame' = r.frame
          /\ frames' = r.frames
          /\ nextId' = IF r.frames # frames THEN nextId + 1 ELSE nextId
          /\ runWrites' = runWrites + r.writes
          /\ pc' = StepAfter(r.threw, "list")
          /\ failedStep' = IF r.threw THEN "frame2" ELSE failedStep
  /\ UNCHANGED <<layoutVars, stdioVars, transport, notes, runs, src, execute, extracted, insightsFrame,
                 existingInsights, existingRisks, insightsNotes, risksNotes,
                 created1, created2, summary, mcpVars, batchVars, runCreated, runListed,
                 succeeded, boVars,
                 llmReply>>

\* ----------------------------------------------------------- list existing
\* listStickyNotesInFrame of miro-poc.ts: one page of sticky notes, filtered
\* by parent on the client.
RestListStickyNotesInFrame(frameId) ==
  SelectSeq(Slice(notes, 0, PageLimit), LAMBDA n : n.parent = frameId)

\* McpTransport.listStickyNotesInFrame: the sticky notes the child reports
\* for the frame, or nothing when no tool matches.
McpListStickyNotesInFrame(frameId) ==
  IF HasTool(PatItemsInFrame)
    THEN SelectSeq(notes, LAMBDA n : n.parent = frameId)
    ELSE <<>>

listStickyNotesInFrame(frameId) ==
  IF transport = "rest"
    THEN RestListStickyNotesInFrame(frameId)
    ELSE McpListStickyNotesInFrame(frameId)

\* Whether a listing call throws: the GET fails, or the tool call is made
\* while not connected or is not answered with a result.
ListThrows(callOk) ==
  IF transport = "rest" THEN ~callOk
  ELSE HasTool(PatItemsInFrame) /\ (~Callable \/ ~callOk)

\* Promise.all of the two listings.
ListExisting ==
  /\ pc = "list"
  /\ \E ok1 \in BOOLEAN, ok2 \in BOOLEAN :
       /\ runListed' = Cardinality({ok \in {<<1, ok1>>, <<2, ok2>>} : ~ListThrows(ok[2])})
       /\ IF ListThrows(ok1) \/ ListThrows(ok2)
           THEN /\ pc' = StepAfter(TRUE, "delta")
                /\ failedStep' = "list"
                /\ UNCHANGED <<existingInsights, existingRisks>>
           ELSE /\ existingInsights' = listStickyNotesInFrame(insightsFrame.id)
                /\ existingRisks' = listStickyNotesInFrame(risksFrame.id)
                /\ pc' = StepAfter(FALSE, "delta")
                /\ UNCHANGED failedStep
  /\ UNCHANGED <<layoutVars, stdioVars, transport, boardVars, runs, src, execute, extracted, insightsFrame,
                 risksFrame, insightsNotes, risksNotes, created1, created2, summary,
                 mcpVars, batchVars, runWrites, runCreated, succeeded, boVars,
                 llmReply>>

\* ------------------------------------------------------ de-dupe and layout
hasRunId(n, runId) == Includes(n.content, Marker(runId))

\* The text of a decorated item, and the run that decorated it ("" if none).
Undecorate(c) == IF Len(c) >= 4 THEN SubSeq(c, 1, Len(c) - 4) ELSE c
DecoratedBy(c, runId) ==
  Len(c) >= 4 /\ SubSeq(c, Len(c) - 3, Len(c)) = <<"\n\n">> \o Marker(runId)

\* A de-dupe by text alone: every existing text counts for the current run.
SkipSetAnyRun(existing, runId) ==
  {decorate(Undecorate(existing[i].content), runId) : i \in 1..Len(existing)}

\* new Set(existing.filter(hasRunId).map(n => n.data.content))
SkipSet(existing, runId) ==
  {existing[i].content : i \in {j \in 1..Len(existing) : hasRunId(existing[j], runId)}}

\* Skipping by the mere presence of a marked item in the container.
DeltaFilterAnyMarked(bullets, skip) == IF skip = {} THEN bullets ELSE <<>>

\* bullets.filter(s => !skip.has(s))
DeltaFilter(bullets, skip) == SelectSeq(bullets, LAMBDA s : s \notin skip)

\* A layout that fills columns first: the row from idx % columns, the column
\* from floor(idx / columns).
gridLayoutColumnMajor(frame, items, o) ==
  LET startX == (frame.x - frame.width \div 2) + o.pad
      startY == (frame.y - frame.height \div 2) + o.pad
  IN [k \in 1..Len(items) |->
        [content |-> items[k],
         x |-> startX + ((k - 1) \div o.columns) * (o.noteW + o.gap),
         y |-> startY + ((k - 1) % o.columns) * (o.noteH + o.gap),
         width |-> o.noteW]]

\* gridLayoutInFrame(frame, items, opts), opts after its defaults. Frame
\* widths and heights of the model are even, so that width / 2 is exact.
gridLayout(frame, items, o) ==
  LET startX == (frame.x - frame.width \div 2) + o.pad
      startY == (frame.y - frame.height \div 2) + o.pad
  IN [k \in 1..Len(items) |->
        [content |-> items[k],
         x |-> startX + ((k - 1) % o.columns) * (o.noteW + o.gap),
         y |-> startY + ((k - 1) \div o.columns) * (o.noteH + o.gap),
         width |-> o.noteW]]

\* gridLayoutInFrame as the main flow calls it ({ columns }), with the
\* parentId the main flow sets afterwards.
gridLayoutInFrame(frame, items, columns) ==
  LET placed == gridLayout(frame, items, [DefaultOpts EXCEPT !.columns = columns])
  IN [k \in 1..Len(items) |->
        [content |-> placed[k].content, x |-> placed[k].x, y |-> placed[k].y,
         width |-> placed[k].width, parentId |-> frame.id]]

\* Steps 3) to 5): skip sets, the items to create, their layout, the preview.
ComputeDelta ==
  /\ pc = "delta"
  /\ insightsNotes' =
       gridLayoutInFrame(insightsFrame,
         DeltaFilter(extracted.insights, SkipSet(existingInsights, extracted.runId)),
         DefaultColumns)
  /\ risksNotes' =
       gridLayoutInFrame(risksFrame,
         DeltaFilter(extracted.risks, SkipSet(existingRisks, extracted.runId)),
         DefaultColumns)
  /\ pc' = "preview"
  /\ UNCHANGED <<layoutVars, stdioVars, transport, boardVars, runs, src, execute, extracted, insightsFrame,
                 risksFrame, existingInsights, existingRisks, created1, created2,
                 summary, mcpVars, batchVars, histVars, boVars,
                 llmReply, failedStep>>

\* if (!EXECUTE) process.exit(0)
DryRunExit ==
  /\ pc = "preview"
  /\ pc' = IF execute THEN "batch1" ELSE "done"
  /\ UNCHANGED <<layoutVars, stdioVars, transport, boardVars, runs, src, execute, extracted, insightsFrame,
                 risksFrame, existingInsights, existingRisks, insightsNotes,
                 risksNotes, created1, created2, summary, mcpVars, batchVars,
                 histVars, boVars,
                 llmReply, failedStep>>

\* ------------------------------------------------------ bulkCreateStickies
\* Outcomes of createSticky (REST): the POST succeeds and its JSON carries the
\* new id, or miroPOST throws.
RestOutcomes == {"created", "http_error"}

\* Outcomes of this.call(create_sticky_note) once the request is written:
\*   "id"      a result carrying an id
\*   "text"    a text result "Created sticky note <digits> ..."
\*   "plain"   a result with no extractable identifier
\*   "error"   a JSON-RPC error envelope {id, error}
\*   "timeout" no response within the call's timeout
McpOutcomes == {"id", "text", "plain", "error", "timeout"}

\* The outcomes after which the board holds the new sticky note.
OnBoard(out) == out \in {"created", "id", "text", "plain"}

\* results.ok++ moved in front of the await: a failed item is counted twice.
RestRecordOkFirst(res, note, out, id) ==
  IF out = "created"
    THEN [res EXCEPT !.ok = @ + 1, !.created = Append(@, id)]
    ELSE [res EXCEPT !.ok = @ + 1, !.failed = Append(@, [note |-> note, error |-> out])]

\* try { r = await createSticky(..); results.ok++; results.created.push(r.id) }
\* catch (err) { results.failed.push({note, error}) }
RestRecord(res, note, out, id) ==
  IF out = "created"
    THEN [res EXCEPT !.ok = @ + 1, !.created = Append(@, id)]
    ELSE [res EXCEPT !.failed = Append(@, [note |-> note, error |-> out])]

\* The body of the for-loop of McpTransport.bulkCreateStickies. out is
\* "not_connected" when call() throws before writing.
McpRecord(res, note, out, id) ==
  IF out \in {"timeout", "not_connected"}
    THEN [res EXCEPT !.failed = Append(@, [note |-> note, error |-> out])]
  ELSE IF out \in {"id", "text"}
    THEN [res EXCEPT !.ok = @ + 1, !.created = Append(@, id)]
  ELSE [res EXCEPT !.ok = @ + 1]

\* The catch placed around the loop instead: a throwing item ends the loop.
NextIndexAbort(i, n, threw) == IF threw THEN n ELSE i + 1

\* for (const note of notes) { try {...} catch {...} }: the catch is inside
\* the loop, so the next item is reached whether or not this one threw.
NextIndex(i, n, threw) == i + 1

\* Entry of bulkCreateStickies for the list ns and chunk size cs.
BatchBegin(ns, cs) ==
  /\ bNotes' = ns /\ bChunkSize' = cs /\ bI' = 0 /\ bJ' = 0
  /\ bRes' = EmptyResults /\ bAttempts' = <<>> /\ bOutcomes' = <<>> /\ bInFlight' = {}
  /\ bStatus' = IF transport = "mcp" /\ ~HasTool(PatCreateSticky)
                  THEN "thrown" ELSE "running"

\* Items handled so far by the running batch.
BatchPos == bI + bJ

\* Requests issued without waiting for the one before.
MayIssueAlways(inflight) == TRUE

\* `await` inside the for-loop: the loop body of the next item starts only
\* when the awaited create of this one has settled.
MayIssue(inflight) == inflight = {}

\* createSticky / this.call(create_sticky_note) is entered for the next item
\* and its request is sent (call() of a transport that is not connected
\* throws instead, without a request).
BatchIssue ==
  /\ bStatus = "running"
  /\ MayIssue(bInFlight)
  /\ BatchPos + Cardinality(bInFlight) < Len(bNotes)
  /\ transport = "mcp" => Callable
  /\ bInFlight' = bInFlight \cup {BatchPos + Cardinality(bInFlight) + 1}
  /\ UNCHANGED <<layoutVars, stdioVars, transport, boardVars, flowVars, mcpVars, bNotes,
                 bChunkSize, bI, bJ, bRes, bAttempts, bOutcomes, bStatus, histVars,
                 boVars>>

\* A chunk cut down to its first note.
ChunkFirstOnly(ns, i, cs) == Slice(ns, i, i + 1)

\* const chunk = notes.slice(i, i + chunkSize)
Chunk(ns, i, cs) == Slice(ns, i, i + cs)

\* One pass of the inner loop of bulkCreateStickies (REST): the next note of
\* the current chunk notes.slice(i, i + chunkSize).
RestBatchItem ==
  /\ transport = "rest" /\ bStatus = "running" /\ bI < Len(bNotes)
  /\ BatchPos + 1 \in bInFlight
  /\ bInFlight' = bInFlight \ {BatchPos + 1}
  /\ LET chunk == Chunk(bNotes, bI, bChunkSize)
         n == chunk[bJ + 1]
     IN \E out \in RestOutcomes :
          /\ bRes' = RestRecord(bRes, n, out, nextId)
          /\ bAttempts' = Append(bAttempts, n)
          /\ bOutcomes' = Append(bOutcomes, out)
          /\ IF bJ + 1 >= Len(chunk)
               THEN bI' = bI + bChunkSize /\ bJ' = 0
               ELSE bI' = bI /\ bJ' = bJ + 1
          /\ IF OnBoard(out)
               THEN /\ notes' = Append(notes, BoardNote(nextId, n.content, n.x, n.y))
                    /\ nextId' = nextId + 1
                    /\ runCreated' = runCreated + 1
               ELSE UNCHANGED <<notes, nextId, runCreated>>
          /\ runWrites' = runWrites + 1
  /\ UNCHANGED <<layoutVars, stdioVars, transport, frames, flowVars, mcpVars, bNotes, bChunkSize, bStatus,
                 succeeded, runListed, boVars>>

\* One pass of the loop of McpTransport.bulkCreateStickies.
McpBatchItem ==
  /\ transport = "mcp" /\ bStatus = "running" /\ bI < Len(bNotes)
  /\ BatchPos + 1 \in bInFlight \/ ~Callable
  /\ bInFlight' = bInFlight \ {BatchPos + 1}
  /\ LET n == bNotes[bI + 1]
         sent == BatchPos + 1 \in bInFlight
     IN \E o \in McpOutcomes :
          LET out == IF sent THEN o ELSE "not_connected"
          IN /\ sent /\ ~process => o = "timeout"
             /\ bRes' = McpRecord(bRes, n, out, nextId)
             /\ bAttempts' = Append(bAttempts, n)
             /\ bOutcomes' = Append(bOutcomes, out)
             /\ bI' = NextIndex(bI, Len(bNotes), out \in {"timeout", "not_connected"})
             /\ bJ' = 0
             /\ IF OnBoard(out)
                  THEN /\ notes' = Append(notes, BoardNote(nextId, n.content, n.x, n.y))
                       /\ nextId' = nextId + 1
                       /\ runCreated' = runCreated + 1
                  ELSE UNCHANGED <<notes, nextId, runCreated>>
             /\ runWrites' = IF sent THEN runWrites + 1 ELSE runWrites
  /\ UNCHANGED <<layoutVars, stdioVars, transport, frames, flowVars, mcpVars, bNotes, bChunkSize, bStatus,
                 succeeded, runListed, boVars>>

\* return results
BatchReturn ==
  /\ bStatus = "running" /\ bI >= Len(bNotes)
  /\ bStatus' = "returned"
  /\ UNCHANGED <<layoutVars, stdioVars, transport, boardVars, flowVars, mcpVars, bNotes, bChunkSize, bI, bJ,
                 bRes, bAttempts, bOutcomes, bInFlight, histVars, boVars>>

\* const created1 = await transport.bulkCreateStickies(BOARD_ID, insightsNotes, 20)
CallBatch1 ==
  /\ pc = "batch1" /\ bStatus = "idle"
  /\ BatchBegin(insightsNotes, MainChunkSize)
  /\ UNCHANGED <<layoutVars, stdioVars, transport, boardVars, flowVars, mcpVars, histVars, boVars>>

Batch1Done ==
  /\ pc = "batch1" /\ bStatus \in {"returned", "thrown"}
  /\ created1' = bRes
  /\ pc' = StepAfter(bStatus = "thrown", "batch2")
  /\ failedStep' = IF bStatus = "thrown" THEN "batch1" ELSE failedStep
  /\ bStatus' = "idle"
  /\ UNCHANGED <<layoutVars, stdioVars, transport, boardVars, runs, src, execute, extracted, insightsFrame,
                 risksFrame, existingInsights, existingRisks, insightsNotes,
                 risksNotes, created2, summary, mcpVars, bNotes, bChunkSize, bI, bJ,
                 bRes, bAttempts, bOutcomes, bInFlight, histVars, boVars,
                 llmReply>>

\* const created2 = await transport.bulkCreateStickies(BOARD_ID, risksNotes, 20)
CallBatch2 ==
  /\ pc = "batch2" /\ bStatus = "idle"
  /\ BatchBegin(risksNotes, MainChunkSize)
  /\ UNCHANGED <<layoutVars, stdioVars, transport, boardVars, flowVars, mcpVars, histVars, boVars>>

Batch2Done ==
  /\ pc = "batch2" /\ bStatus \in {"returned", "thrown"}
  /\ created2' = bRes
  /\ pc' = StepAfter(bStatus = "thrown", "verify")
  /\ failedStep' = IF bStatus = "thrown" THEN "batch2" ELSE failedStep
  /\ bStatus' = "idle"
  /\ UNCHANGED <<layoutVars, stdioVars, transport, boardVars, runs, src, execute, extracted, insightsFrame,
                 risksFrame, existingInsights, existingRisks, insightsNotes,
                 risksNotes, created1, summary, mcpVars, bNotes, bChunkSize, bI, bJ,
                 bRes, bAttempts, bOutcomes, bInFlight, histVars, boVars,
                 llmReply>>

\* ------------------------------------------------------ verify and report
TotalsFirstBatch(c1, c2) == [created |-> c1.ok, failed |-> Len(c1.failed)]

\* created: created1.ok + created2.ok, failed: created1.failed.length +
\* created2.failed.length
Totals(c1, c2) ==
  [created |-> c1.ok + c2.ok, failed |-> Len(c1.failed) + Len(c2.failed)]

CountRunId(arr, runId) ==
  Cardinality({i \in 1..Len(arr) : hasRunId(arr[i], runId)})

\* Step 7) and the summary: both containers are listed again and the items
\* carrying the current marker are counted.
VerifyAndReport ==
  /\ pc = "verify"
  /\ \E ok1 \in BOOLEAN, ok2 \in BOOLEAN :
       IF ListThrows(ok1) \/ ListThrows(ok2)
         THEN /\ pc' = StepAfter(TRUE, "done")
              /\ failedStep' = "verify"
              /\ UNCHANGED <<summary, succeeded>>
         ELSE /\ UNCHANGED failedStep
              /\ summary' =
                   [created |-> Totals(created1, created2).created,
                    failed |-> Totals(created1, created2).failed,
                    insightsWithRunId |->
                      CountRunId(listStickyNotesInFrame(insightsFrame.id), extracted.runId),
                    risksWithRunId |->
                      CountRunId(listStickyNotesInFrame(risksFrame.id), extracted.runId)]
              /\ pc' = StepAfter(FALSE, "done")
              /\ succeeded' =
                   IF /\ created1.failed = <<>> /\ created2.failed = <<>>
                      /\ runCreated = Len(insightsNotes) + Len(risksNotes)
                     THEN succeeded \cup {src}
                     ELSE succeeded
  /\ UNCHANGED <<layoutVars, stdioVars, transport, boardVars, runs, src, execute, extracted, insightsFrame,
                 risksFrame, existingInsights, existingRisks, insightsNotes,
                 risksNotes, created1, created2, mcpVars, batchVars, runWrites,
                 runCreated, runListed, boVars,
                 llmReply>>

\* ------------------------------------------------------------ environment
Inside(f, n) ==
  /\ f.x - f.width \div 2 <= n.x /\ n.x <= f.x + f.width \div 2
  /\ f.y - f.height \div 2 <= n.y /\ n.y <= f.y + f.height \div 2

\* Sticky notes are created without a parent; a user of the board may drag
\* the loose notes lying over a frame into it ("Users can manually organize
\* them on the board").
UserOrganize ==
  /\ pc = "idle"
  /\ \E j \in 1..Len(frames) :
       /\ IsFrame(frames[j])
       /\ \E k \in 1..Len(notes) : notes[k].parent = NoId /\ Inside(frames[j], notes[k])
       /\ notes' = [k \in 1..Len(notes) |->
                      IF notes[k].parent = NoId /\ Inside(frames[j], notes[k])
                        THEN [notes[k] EXCEPT !.parent = frames[j].id]
                        ELSE notes[k]]
  /\ UNCHANGED <<layoutVars, stdioVars, transport, frames, nextId, flowVars, mcpVars, batchVars, histVars,
                 boVars>>

Next ==
  \/ \E t \in Sources, e \in BOOLEAN : StartRun(t, e)
  \/ InitTransport
  \/ \E reply \in Replies(src) : Extract(reply)
  \/ EnsureInsightsFrame
  \/ EnsureRisksFrame
  \/ ListExisting
  \/ ComputeDelta
  \/ DryRunExit
  \/ CallBatch1
  \/ BatchIssue
  \/ RestBatchItem
  \/ McpBatchItem
  \/ BatchReturn
  \/ Batch1Done
  \/ CallBatch2
  \/ Batch2Done
  \/ VerifyAndReport
  \/ ProcessExit
  \/ UserOrganize

Spec == Init /\ [][Next]_vars

\* ------------------------------------------- the transport called directly
\* bulkCreateStickies as a library operation: any caller, any list, any
\* chunk size, the stdio transport in any of its states.
ItemNames == <<"n1", "n2", "n3", "n4", "n5", "n6">>

CallerNote(k) ==
  [content |-> <<ItemNames[k]>>, x |-> k * 200, y |-> 0, width |-> DefaultNoteW,
   parentId |-> NoId]

CallerNotes(len) == [k \in 1..len |-> CallerNote(k)]

ChunkSizes == {1, 2, MainChunkSize}

InitBatch ==
  /\ transport \in {"rest", "mcp"}
  /\ frames = <<>> /\ notes = <<>> /\ nextId = 100
  /\ InitFlowVars
  /\ connected = FALSE /\ tools = {} /\ process = FALSE /\ lastOp = NoOp
  /\ InitBatchVars
  /\ runWrites = 0 /\ runCreated = 0 /\ runListed = 0 /\ succeeded = {}
  /\ InitBackoffIdle
  /\ InitStdioVars
  /\ InitLayoutVars

\* McpTransport.connect: the child is spawned; the initialize response is
\* seen (seen) or the connection timeout rejects.
CallerConnect(seen) ==
  /\ transport = "mcp" /\ bStatus # "running" /\ ~connected /\ ~process
  /\ process' = TRUE
  /\ connected' = seen
  /\ tools' = IF seen THEN KnownTools ELSE tools
  /\ lastOp' = NoOp
  /\ UNCHANGED <<layoutVars, stdioVars, transport, boardVars, flowVars, batchVars, histVars, boVars>>

\* McpTransport.disconnect
CallerDisconnect ==
  /\ transport = "mcp" /\ process
  /\ process' = FALSE
  /\ connected' = FALSE
  /\ lastOp' = [NoOp EXCEPT !.disc = TRUE]
  /\ UNCHANGED <<layoutVars, stdioVars, transport, boardVars, flowVars, tools, batchVars, histVars, boVars>>

\* A method is entered: whether connect() had seen the initialize response
\* by then, and whether disconnect() was the last change of connection.
OpBegun(name) ==
  [op |-> name, ready |-> tools # {}, disc |-> lastOp.disc, result |-> "pending",
   error |-> "", wrote |-> 0]

CallerBulkCreate(len, cs) ==
  /\ bStatus \in {"idle", "returned", "thrown"}
  /\ runs < MaxCalls
  /\ runs' = runs + 1
  /\ BatchBegin(CallerNotes(len), cs)
  /\ runWrites' = 0 /\ runCreated' = 0 /\ runListed' = 0
  /\ lastOp' = OpBegun("bulk")
  /\ UNCHANGED <<layoutVars, stdioVars, transport, boardVars, pc, src, execute, extracted, insightsFrame,
                 risksFrame, existingInsights, existingRisks, insightsNotes,
                 risksNotes, created1, created2, summary, connected, tools, process,
                 succeeded, boVars,
                 llmReply, failedStep>>

\* The error a call() made now ends with when it is not answered.
CallError == IF Callable THEN "timeout" ELSE "not_connected"

\* McpTransport.call of a tool that reads: it throws unless connected with a
\* process; otherwise the request is written and is answered or times out.
CallerCall(ok) ==
  /\ transport = "mcp" /\ bStatus # "running"
  /\ runs < MaxCalls
  /\ runs' = runs + 1
  /\ lastOp' = [OpBegun("call") EXCEPT
                  !.result = IF Callable /\ ok THEN "returned" ELSE "threw",
                  !.error = IF Callable /\ ok THEN "" ELSE CallError,
                  !.wrote = IF Callable THEN 1 ELSE 0]
  /\ UNCHANGED <<layoutVars, stdioVars, transport, boardVars, pc, src, execute, extracted, insightsFrame,
                 risksFrame, existingInsights, existingRisks, insightsNotes,
                 risksNotes, created1, created2, summary, connected, tools, process,
                 batchVars, histVars, boVars,
                 llmReply, failedStep>>

\* McpTransport.getOrCreateFrame called by any caller.
CallerGetOrCreateFrame(getOk, postOk) ==
  /\ transport = "mcp" /\ bStatus # "running"
  /\ runs < MaxCalls
  /\ runs' = runs + 1
  /\ LET r == McpGetOrCreateFrame(TitleInsights, InsightsX, FrameY, getOk, postOk)
         asked == HasTool(PatFrames) /\ Callable
     IN /\ frames' = r.frames
        /\ nextId' = IF r.frames # frames THEN nextId + 1 ELSE nextId
        /\ lastOp' = [OpBegun("frame") EXCEPT
                        !.result = IF r.threw THEN "threw" ELSE "returned",
                        !.error = IF ~r.threw THEN ""
                                  ELSE IF ~HasTool(PatFrames) /\ ~HasTool(PatCreateShape)
                                    THEN "no_tool"
                                  ELSE CallError,
                        !.wrote = (IF asked THEN 1 ELSE 0) + r.writes]
  /\ UNCHANGED <<layoutVars, stdioVars, transport, notes, pc, src, execute, extracted, insightsFrame,
                 risksFrame, existingInsights, existingRisks, insightsNotes,
                 risksNotes, created1, created2, summary, connected, tools, process,
                 batchVars, histVars, boVars,
                 llmReply, failedStep>>

\* McpTransport.listStickyNotesInFrame called by any caller.
CallerList(callOk) ==
  /\ transport = "mcp" /\ bStatus # "running"
  /\ runs < MaxCalls
  /\ runs' = runs + 1
  /\ lastOp' = [OpBegun("list") EXCEPT
                  !.result = IF ListThrows(callOk) THEN "threw" ELSE "returned",
                  !.error = IF ListThrows(callOk) THEN CallError ELSE "",
                  !.wrote = IF HasTool(PatItemsInFrame) /\ Callable THEN 1 ELSE 0]
  /\ UNCHANGED <<layoutVars, stdioVars, transport, boardVars, pc, src, execute, extracted, insightsFrame,
                 risksFrame, existingInsights, existingRisks, insightsNotes,
                 risksNotes, created1, created2, summary, connected, tools, process,
                 batchVars, histVars, boVars,
                 llmReply, failedStep>>

NextBatch ==
  \/ \E seen \in BOOLEAN : CallerConnect(seen)
  \/ CallerDisconnect
  \/ \E len \in 0..MaxBatch, cs \in ChunkSizes : CallerBulkCreate(len, cs)
  \/ \E ok \in BOOLEAN : CallerCall(ok)
  \/ \E getOk \in BOOLEAN, postOk \in BOOLEAN : CallerGetOrCreateFrame(getOk, postOk)
  \/ \E callOk \in BOOLEAN : CallerList(callOk)
  \/ BatchIssue
  \/ RestBatchItem
  \/ McpBatchItem
  \/ BatchReturn

SpecBatch == InitBatch /\ [][NextBatch]_vars

\* ------------------------------------------------------------------ backoff
\* What the wrapped operation may resolve with (the status of a fetch
\* response) and what it may throw ({status, code}, 0 for an absent field).
Responses == {200, 401, 429, 500}
Errors == [status : {0, 401, 403, 429, 500}, code : {0, 403, 104}]

\* const status = err?.status || err?.code
ErrStatus(err) == IF err.status # 0 THEN err.status ELSE err.code

IsAuthFailureOnly401(status) == status = 401

\* if (status === 401 || status === 403) throw err
IsAuthFailure(status) == status = 401 \/ status = 403

LastAttemptNever(a) == FALSE

\* if (attempt === maxAttempts) break, and the throw lastErr that follows
LastAttempt(a) == a = DefaultMaxAttempts

InitBackoff ==
  /\ transport = "rest"
  /\ frames = <<>> /\ notes = <<>> /\ nextId = 100
  /\ InitFlowVars
  /\ connected = FALSE /\ tools = {} /\ process = FALSE /\ lastOp = NoOp
  /\ InitBatchVars
  /\ runWrites = 0 /\ runCreated = 0 /\ runListed = 0 /\ succeeded = {}
  /\ boState = "calling" /\ attempt = 1 /\ delay = InitialDelay /\ lastErr = NoErr
  /\ boThrown = NoErr /\ boResult = 0 /\ boCalls = 0 /\ boSleeps = <<>>
  /\ boErrs = <<>> /\ boLog = <<>>
  /\ miroCall = [state |-> "pending", err |-> NoErr]
  /\ InitStdioVars
  /\ InitLayoutVars

\* One pass of the for-loop up to its await sleep(delay): fn() resolves.
BackoffResolve(v) ==
  /\ boState = "calling" /\ attempt <= DefaultMaxAttempts
  /\ boCalls' = boCalls + 1
  /\ boResult' = v
  /\ boState' = "returned"
  /\ UNCHANGED <<layoutVars, stdioVars, transport, boardVars, flowVars, mcpVars, batchVars, histVars,
                 attempt, delay, lastErr, boThrown, boSleeps, boErrs, boLog, miroCall>>

\* One pass of the for-loop up to its await sleep(delay): fn() throws err.
BackoffCatch(err) ==
  /\ boState = "calling" /\ attempt <= DefaultMaxAttempts
  /\ boCalls' = boCalls + 1
  /\ lastErr' = err
  /\ boErrs' = Append(boErrs, err)
  /\ IF IsAuthFailure(ErrStatus(err)) \/ LastAttempt(attempt)
       THEN /\ boState' = "thrown"
            /\ boThrown' = err
            /\ UNCHANGED boSleeps
       ELSE /\ boState' = "sleeping"
            /\ boSleeps' = Append(boSleeps, delay)
            /\ UNCHANGED boThrown
  /\ UNCHANGED <<layoutVars, stdioVars, transport, boardVars, flowVars, mcpVars, batchVars, histVars,
                 attempt, delay, boResult, boLog, miroCall>>

\* After the sleep: the delay doubles, the warning is printed, attempt++.
BackoffWake ==
  /\ boState = "sleeping"
  /\ delay' = Min(delay * 2, MaxDelay)
  /\ boLog' = Append(boLog, [attempt |-> attempt, delay |-> Min(delay * 2, MaxDelay)])
  /\ attempt' = attempt + 1
  /\ boState' = "calling"
  /\ UNCHANGED <<layoutVars, stdioVars, transport, boardVars, flowVars, mcpVars, batchVars, histVars,
                 lastErr, boThrown, boResult, boCalls, boSleeps, boErrs, miroCall>>

\* resp.ok
RespOk(status) == status >= 200 /\ status < 300

\* miroGET / miroPOST around their backoff(() => fetch(...)): an error
\* backoff rethrows propagates; a response that is not ok is turned into an
\* error carrying its status and thrown, after backoff has returned.
MiroSettle ==
  /\ miroCall.state = "pending"
  /\ boState \in {"returned", "thrown"}
  /\ miroCall' = IF boState = "thrown"
                   THEN [state |-> "thrown", err |-> boThrown]
                   ELSE IF RespOk(boResult)
                          THEN [state |-> "ok", err |-> NoErr]
                          ELSE [state |-> "thrown",
                                err |-> [status |-> boResult, code |-> 0]]
  /\ UNCHANGED <<layoutVars, stdioVars, transport, boardVars, flowVars, mcpVars, batchVars, histVars,
                 boState, attempt, delay, lastErr, boThrown, boResult, boCalls,
                 boSleeps, boErrs, boLog>>

NextBackoff ==
  \/ \E v \in Responses : BackoffResolve(v)
  \/ \E err \in Errors : BackoffCatch(err)
  \/ BackoffWake
  \/ MiroSettle

SpecBackoff == InitBackoff /\ [][NextBackoff]_vars

\* ---------------------------------------------------- the stdio protocol
\* The child's stdout is a stream of tokens; a line is a record followed by
\* "\n". The text "result" spans two tokens, so that a chunk can end inside it.
IdTok == <<"1", "2", "3", "4", "5">>
ResultTok == <<"\"res", "ult\"">>
IdKey == <<"\"id\"">>

\* {"jsonrpc":"2.0","id":k,"result":{...}}
ResultLine(k) == <<"{", "\"id\"", IdTok[k]>> \o ResultTok \o <<"}">>
\* {"jsonrpc":"2.0","id":k,"error":{...}}
ErrorLine(k) == <<"{", "\"id\"", IdTok[k], "\"error\"", "}">>
\* {"jsonrpc":"2.0","method":"notifications/..."}
NotificationLine == <<"{", "\"method\"", "}">>

\* What the child may write: a response to a request it was sent, a response
\* bearing the id no request has used yet, or a notification.
ChildLines ==
  {ResultLine(k) : k \in 1..messageId} \cup {ErrorLine(k) : k \in 2..(messageId - 1)}
    \cup {NotificationLine}

\* String.prototype.split('\n')
RECURSIVE Split(_)
Split(s) ==
  IF \A i \in 1..Len(s) : s[i] # "\n" THEN <<s>>
  ELSE LET i == CHOOSE i \in 1..Len(s) :
                  s[i] = "\n" /\ \A j \in 1..(i - 1) : s[j] # "\n"
       IN <<SubSeq(s, 1, i - 1)>> \o Split(SubSeq(s, i + 1, Len(s)))

\* JSON.parse(line): the record when the text is a whole JSON value, ok = FALSE
\* when JSON.parse throws; id 0 for a record without id.
JsonParse(line) ==
  IF \E k \in 1..Len(IdTok) : line = ResultLine(k)
    THEN [ok |-> TRUE, kind |-> "result",
          id |-> CHOOSE k \in 1..Len(IdTok) : line = ResultLine(k)]
  ELSE IF \E k \in 1..Len(IdTok) : line = ErrorLine(k)
    THEN [ok |-> TRUE, kind |-> "error",
          id |-> CHOOSE k \in 1..Len(IdTok) : line = ErrorLine(k)]
  ELSE IF line = NotificationLine
    THEN [ok |-> TRUE, kind |-> "notification", id |-> 0]
  ELSE [ok |-> FALSE, kind |-> "", id |-> 0]

\* The test call's onData applies to one piece of responseData.split('\n').
LineMatches(line, id) ==
  /\ Trim(line) # <<>> /\ Includes(line, IdKey)
  /\ JsonParse(line).ok /\ JsonParse(line).id = id

\* The first piece of the buffer that matches the id (0 when none does).
FirstMatch(buf, id) ==
  LET ps == Split(buf)
      hits == {i \in 1..Len(ps) : LineMatches(ps[i], id)}
  IN IF hits = {} THEN 0 ELSE CHOOSE i \in hits : \A j \in hits : i <= j

\* The test connect's onData applies to one chunk.
ConnectSees(chunk) == Includes(Trim(chunk), ResultTok)

DetachNone(ls, ks) == ls

\* stdout.off('data', onData) for the listeners of the requests ks
Detach(ls, ks) == SelectSeq(ls, LAMBDA l : l \notin ks)

\* stdin.write(JSON.stringify(message) + '\n') while the listeners ls are
\* attached to stdout.
Write(sin, id, ls) ==
  Append(sin, [id |-> id, registered |-> \E i \in 1..Len(ls) : ls[i] = id])

NewRequest(kind, from) ==
  [kind |-> kind, state |-> "pending", value |-> "", from |-> from]

\* A promise is settled once: resolve and reject do nothing afterwards.
Settle(r, state, value) ==
  IF r.state = "pending" THEN [r EXCEPT !.state = state, !.value = value] ELSE r

InitStdio ==
  /\ transport = "mcp"
  /\ frames = <<>> /\ notes = <<>> /\ nextId = 100
  /\ InitFlowVars
  /\ connected = FALSE /\ tools = {} /\ process = FALSE /\ lastOp = NoOp
  /\ InitBatchVars
  /\ runWrites = 0 /\ runCreated = 0 /\ runListed = 0 /\ succeeded = {}
  /\ InitBackoffIdle
  /\ InitStdioVars
  /\ InitLayoutVars

\* McpTransport.connect on a new transport: spawn, write the initialize
\* request, attach onData, start the 5 s timer.
StdioConnect ==
  /\ ~process /\ messageId = 1
  /\ process' = TRUE
  /\ stdin' = Write(stdin, messageId, listeners)
  /\ reqs' = Append(reqs, NewRequest("connect", Len(delivered)))
  /\ listeners' = Append(listeners, messageId)
  /\ timers' = timers \cup {messageId}
  /\ messageId' = messageId + 1
  /\ UNCHANGED <<layoutVars, transport, boardVars, flowVars, connected, tools, lastOp, batchVars,
                 histVars, boVars, pipe, delivered, emitted>>

\* McpTransport.call past its guard: attach onData, write the request, start
\* the 10 s timer.
StdioCall ==
  /\ connected /\ process
  /\ messageId <= MaxRequests
  /\ listeners' = Append(listeners, messageId)
  /\ stdin' = Write(stdin, messageId, listeners')
  /\ reqs' = Append(reqs, NewRequest("call", Len(delivered)))
  /\ timers' = timers \cup {messageId}
  /\ messageId' = messageId + 1
  /\ UNCHANGED <<layoutVars, transport, boardVars, flowVars, mcpVars, batchVars, histVars, boVars,
                 pipe, delivered, emitted>>

\* The child writes a line to its stdout.
ChildEmit(line) ==
  /\ process /\ emitted < MaxLines
  /\ pipe' = pipe \o line \o <<"\n">>
  /\ emitted' = emitted + 1
  /\ UNCHANGED <<layoutVars, transport, boardVars, flowVars, mcpVars, batchVars, histVars, boVars,
                 messageId, reqs, listeners, timers, stdin, delivered>>

\* The listeners a 'data' event with this chunk makes act: connect's looks at
\* the chunk alone, a call's at everything delivered since it was attached.
Fired(chunk, all) ==
  {k \in 1..Len(reqs) :
     /\ \E i \in 1..Len(listeners) : listeners[i] = k
     /\ IF reqs[k].kind = "connect"
          THEN ConnectSees(chunk)
          ELSE FirstMatch(SubSeq(all, reqs[k].from + 1, Len(all)), k) # 0}

\* What the promise of request k is resolved with by its listener.
Resolution(k, all) ==
  IF reqs[k].kind = "connect" THEN "undefined"
  ELSE LET buf == SubSeq(all, reqs[k].from + 1, Len(all))
           r == JsonParse(Split(buf)[FirstMatch(buf, k)])
       IN IF r.kind = "result" THEN "result" ELSE "undefined"

\* One 'data' event: the next n tokens of the stream reach every listener.
Deliver(n) ==
  /\ process /\ n \in 1..Len(pipe)
  /\ \E all \in {delivered \o SubSeq(pipe, 1, n)} :
     \E fired \in {Fired(SubSeq(pipe, 1, n), all)} :
        /\ pipe' = SubSeq(pipe, n + 1, Len(pipe))
        /\ delivered' = all
        /\ listeners' = Detach(listeners, fired)
        /\ reqs' = [k \in 1..Len(reqs) |->
                      IF k \in fired
                        THEN Settle(reqs[k], "resolved", Resolution(k, all))
                        ELSE reqs[k]]
        /\ IF \E k \in fired : reqs[k].kind = "connect"
             THEN connected' = TRUE /\ tools' = KnownTools
             ELSE UNCHANGED <<connected, tools>>
  /\ UNCHANGED <<layoutVars, transport, boardVars, flowVars, process, lastOp, batchVars, histVars,
                 boVars, messageId, timers, stdin, emitted>>

\* setTimeout(() => reject(new Error('Connection timeout')), 5000)
ConnectTimeout(k) ==
  /\ k \in timers /\ reqs[k].kind = "connect"
  /\ timers' = timers \ {k}
  /\ reqs' = [reqs EXCEPT ![k] = Settle(@, "rejected", "timeout")]
  /\ UNCHANGED <<layoutVars, transport, boardVars, flowVars, mcpVars, batchVars, histVars, boVars,
                 messageId, listeners, stdin, pipe, delivered, emitted>>

\* setTimeout(() => { this.process?.stdout?.off('data', onData); reject(...) }, 10000)
CallTimeout(k) ==
  /\ k \in timers /\ reqs[k].kind = "call"
  /\ timers' = timers \ {k}
  /\ listeners' = IF process THEN Detach(listeners, {k}) ELSE listeners
  /\ reqs' = [reqs EXCEPT ![k] = Settle(@, "rejected", "timeout")]
  /\ UNCHANGED <<layoutVars, transport, boardVars, flowVars, mcpVars, batchVars, histVars, boVars,
                 messageId, stdin, pipe, delivered, emitted>>

\* McpTransport.disconnect: the child is killed; its stdout ends, and with it
\* whatever was attached to it or still unread in it.
StdioDisconnect ==
  /\ process
  /\ process' = FALSE /\ connected' = FALSE
  /\ pipe' = <<>> /\ listeners' = <<>>
  /\ UNCHANGED <<layoutVars, transport, boardVars, flowVars, tools, lastOp, batchVars, histVars,
                 boVars, messageId, reqs, timers, stdin, delivered, emitted>>

NextStdio ==
  \/ StdioConnect
  \/ StdioCall
  \/ \E line \in ChildLines : ChildEmit(line)
  \/ \E n \in 1..(MaxLines * 7) : Deliver(n)
  \/ \E k \in 1..MaxRequests : ConnectTimeout(k)
  \/ \E k \in 1..MaxRequests : CallTimeout(k)
  \/ StdioDisconnect

SpecStdio == InitStdio /\ [][NextStdio]_vars

\* Node fires every timer that was started.
SpecStdioFair ==
  /\ SpecStdio
  /\ \A k \in 1..MaxRequests : WF_vars(ConnectTimeout(k)) /\ WF_vars(CallTimeout(k))

\* ------------------------------------------------------- layout, called alone
\* gridLayoutInFrame called directly with any frame, texts and options.
TextNames == <<"a", "b", "c", "d", "e", "f", "g", "h", "i">>

\* The texts handed in: distinct ones in order, the same reversed, or one
\* text repeated.
TextLists ==
  UNION { { [k \in 1..n |-> <<TextNames[k]>>],
            [k \in 1..n |-> <<TextNames[n + 1 - k]>>],
            [k \in 1..n |-> <<"a">>] } : n \in 0..MaxTexts }

GridFrames ==
  { [id |-> 7, title |-> <<"F">>, x |-> x, y |-> y, width |-> w, height |-> h] :
      x \in {0 - 900, 0, 15}, y \in {0, 0 - 7}, w \in {FRAME_W, 100}, h \in {FRAME_H, 60} }

GridOptions ==
  { [columns |-> c, gap |-> g, pad |-> p, noteW |-> nw, noteH |-> nh] :
      c \in {1, 2, DefaultColumns}, g \in {0, DefaultGap}, p \in {0, DefaultPad},
      nw \in {DefaultNoteW, 9}, nh \in {DefaultNoteH} }

InitLayout ==
  /\ transport = "rest"
  /\ frames = <<>> /\ notes = <<>> /\ nextId = 100
  /\ InitFlowVars
  /\ connected = FALSE /\ tools = {} /\ process = FALSE /\ lastOp = NoOp
  /\ InitBatchVars
  /\ runWrites = 0 /\ runCreated = 0 /\ runListed = 0 /\ succeeded = {}
  /\ InitBackoffIdle
  /\ InitStdioVars
  /\ gFrame \in GridFrames /\ gItems \in TextLists /\ gOpts \in GridOptions
  /\ gOut = NoLayout

CallGridLayout ==
  /\ ~gOut.done
  /\ gOut' = [done |-> TRUE, stickies |-> gridLayout(gFrame, gItems, gOpts)]
  /\ UNCHANGED <<gFrame, gItems, gOpts, stdioVars, transport, boardVars, flowVars,
                 mcpVars, batchVars, histVars, boVars>>

NextLayout == CallGridLayout

SpecLayout == InitLayout /\ [][NextLayout]_vars

\* =================================================================== claims
AfterDelta == {"preview", "batch1", "batch2", "verify", "done"}
BeforeReport == {"preview", "batch1", "batch2", "verify"}
Failures == {"http_error", "timeout", "not_connected"}
RunIds == {RunIdOf(t) : t \in Sources}

\* C1: after an execute run that created every item of a transcript, a later
\* run of the same transcript on the same board has nothing to create and
\* creates nothing.
C1_IdempotentRerun ==
  (pc \in BeforeReport /\ src \in succeeded) =>
    /\ insightsNotes = <<>>
    /\ risksNotes = <<>>
    /\ runCreated = 0

\* C2: a run without --execute sends no mutating request to the board:
\* neither a container nor an item is created.
C2_PreviewWritesNothing == ~execute => runWrites = 0

\* C3: bulkCreateStickies attempts the items of its input once each and in
\* input order; a failed item does not keep a later item from being attempted.
C3_AttemptsEveryItemInOrder ==
  bStatus \in {"running", "returned"} =>
    /\ Len(bAttempts) = Min(BatchPos, Len(bNotes))
    /\ bAttempts = SubSeq(bNotes, 1, Len(bAttempts))
    /\ bStatus = "returned" => bAttempts = bNotes

C3_Witness ==
  /\ bStatus = "returned" /\ Len(bNotes) = 3 /\ bAttempts = bNotes
  /\ bOutcomes[1] \in Failures /\ bOutcomes[2] \in Failures

\* C4: bulkCreateStickies never throws, whatever the state of the transport.
C4_BatchNeverThrows == bStatus # "thrown"

\* C5: the result of bulkCreateStickies satisfies
\* ok + length(failed) = length(input).
C5_CountsAddUp ==
  /\ bStatus = "running" => bRes.ok + Len(bRes.failed) = Len(bAttempts)
  /\ bStatus = "returned" => bRes.ok + Len(bRes.failed) = Len(bNotes)

C5_Witness ==
  /\ bStatus = "returned" /\ Len(bNotes) = 3
  /\ bRes.ok = 2 /\ Len(bRes.failed) = 1
  /\ transport = "rest" /\ bChunkSize = 2

\* C6: in the result of bulkCreateStickies, failed holds exactly the items
\* whose creation failed, ok counts exactly the items that were created, and
\* every created item has its entry in created.
C6_CreatedAndFailedExact ==
  bStatus = "returned" =>
    LET bad == {i \in 1..Len(bNotes) : ~OnBoard(bOutcomes[i])}
    IN /\ Len(bRes.created) = bRes.ok
       /\ bRes.ok = Len(bNotes) - Cardinality(bad)
       /\ Len(bRes.failed) = Cardinality(bad)
       /\ \A i \in bad : \E k \in 1..Len(bRes.failed) : bRes.failed[k].note = bNotes[i]

\* C7: over any sequence of runs the board holds at most one container for
\* the title "Insights" and at most one for "Risks".
ContainerTitle(f) == Trim(IF f.kind = "frame" THEN f.title ELSE f.content)
TitledContainers(t) == {i \in 1..Len(frames) : ContainerTitle(frames[i]) = Trim(t)}
C7_OneContainerPerTitle ==
  /\ Cardinality(TitledContainers(TitleInsights)) <= 1
  /\ Cardinality(TitledContainers(TitleRisks)) <= 1

\* C8 as stated: an item is left out of the items to create iff some listed
\* item of its container carries the current-run marker.
MarkedListed(existing) ==
  \E k \in 1..Len(existing) : Includes(existing[k].content, Marker(extracted.runId))
LeftOut(bullet, placed) == \A k \in 1..Len(placed) : placed[k].content # bullet
C8_SkippedIffMarkerListed ==
  pc \in AfterDelta =>
    /\ \A i \in 1..Len(extracted.insights) :
         LeftOut(extracted.insights[i], insightsNotes) <=> MarkedListed(existingInsights)
    /\ \A i \in 1..Len(extracted.risks) :
         LeftOut(extracted.risks[i], risksNotes) <=> MarkedListed(existingRisks)

\* C8 amended: an item is left out of the items to create iff the listing of
\* its own container holds an item whose whole content is the decorated item;
\* the items kept are laid out in input order.
SameListed(bullet, existing) ==
  \E k \in 1..Len(existing) : existing[k].content = bullet
C8_SkippedIffSameContentListed ==
  pc \in AfterDelta =>
    /\ SelectContent(insightsNotes) =
         SelectSeq(extracted.insights, LAMBDA s : ~SameListed(s, existingInsights))
    /\ SelectContent(risksNotes) =
         SelectSeq(extracted.risks, LAMBDA s : ~SameListed(s, existingRisks))

C8_Witness ==
  /\ pc = "preview"
  /\ Len(insightsNotes) = 1 /\ Len(extracted.insights) = 2
  /\ MarkedListed(existingInsights)
  /\ Len(risksNotes) = 1 /\ existingRisks = <<>>

\* C9: a listed item decorated by another run never accounts for leaving out
\* an item of the current run: every item left out has a listed item of the
\* same content that no other run decorated.
OtherRun(n) ==
  \E r \in RunIds : r # extracted.runId /\ DecoratedBy(n.content, r)
JustifiedSkip(bullet, existing) ==
  \E k \in 1..Len(existing) : existing[k].content = bullet /\ ~OtherRun(existing[k])
C9_OtherRunNeverSkips ==
  pc \in AfterDelta =>
    /\ \A i \in 1..Len(extracted.insights) :
         LeftOut(extracted.insights[i], insightsNotes)
           => JustifiedSkip(extracted.insights[i], existingInsights)
    /\ \A i \in 1..Len(extracted.risks) :
         LeftOut(extracted.risks[i], risksNotes)
           => JustifiedSkip(extracted.risks[i], existingRisks)

\* An item of another run with the same text is listed, and the current item
\* is still to be created.
C9_Witness ==
  /\ pc = "preview"
  /\ \E k \in 1..Len(existingInsights), i \in 1..Len(insightsNotes) :
       /\ OtherRun(existingInsights[k])
       /\ Undecorate(existingInsights[k].content) = Undecorate(insightsNotes[i].content)

\* C10: an error of status 401 or 403 is rethrown by the attempt that met it:
\* it is the last error, the operation is not invoked again and no sleep
\* follows it.
C10_AuthFailsFast ==
  \A k \in 1..Len(boErrs) :
    boErrs[k].status \in {401, 403} =>
      /\ k = Len(boErrs)
      /\ boState = "thrown"
      /\ boThrown = boErrs[k]
      /\ boCalls = k
      /\ Len(boSleeps) = k - 1

C10_Witness ==
  /\ boState = "thrown" /\ Len(boErrs) = 3 /\ boErrs[3].status = 403
  /\ boErrs[3].code = 104

\* C11: the wrapped operation is invoked at most five times; a call that
\* resolves ends backoff with that value, every earlier call having failed and
\* none following; five failures that are not authentication failures end
\* with the fifth error rethrown.
C11_AtMostFiveFirstSuccessLastError ==
  /\ boCalls <= DefaultMaxAttempts
  /\ boCalls = Len(boErrs) + (IF boState = "returned" THEN 1 ELSE 0)
  /\ boState = "returned" => boResult \in Responses /\ boThrown = NoErr
  /\ (/\ Len(boErrs) = DefaultMaxAttempts
      /\ \A k \in 1..Len(boErrs) : ~IsAuthFailure(ErrStatus(boErrs[k])))
       => boState = "thrown" /\ boThrown = boErrs[DefaultMaxAttempts]

C11_Witness ==
  /\ boState = "thrown" /\ Len(boErrs) = DefaultMaxAttempts
  /\ boErrs[4] = [status |-> 429, code |-> 0]
  /\ boErrs[5] = [status |-> 500, code |-> 104]
  /\ boThrown = boErrs[5]

\* C12: a REST call that fails with the error of a 429 response has sent its
\* request five times; one that fails with the error of a 401 or 403 response
\* sent nothing after that response.
C12_RateLimitRetried ==
  miroCall.state = "thrown" /\ boState = "returned" =>
    /\ miroCall.err.status = 429 => boCalls = DefaultMaxAttempts
    /\ miroCall.err.status \in {401, 403} => boCalls = Len(boErrs) + 1

\* C14: a method of the stdio transport entered before connect() has seen the
\* initialize response ends in an error: call, getOrCreateFrame and
\* listStickyNotesInFrame throw and bulkCreateStickies does not return.
C14_BeforeReadyEveryOperationFails ==
  ~lastOp.ready =>
    /\ lastOp.op \in {"call", "frame", "list"} => lastOp.result = "threw"
    /\ lastOp.op = "bulk" /\ bStatus # "running" => bStatus = "thrown"

\* C16: after disconnect() there is no process and the transport is not
\* connected, and a method entered then ends with the 'not connected' error
\* (for bulkCreateStickies: recorded for every item) with nothing written to
\* the child.
C16_AfterDisconnectNotConnected ==
  lastOp.disc =>
    /\ ~process /\ ~connected
    /\ lastOp.op \in {"call", "frame", "list"} =>
         /\ lastOp.result = "threw" /\ lastOp.error = "not_connected"
         /\ lastOp.wrote = 0
    /\ lastOp.op = "bulk" /\ bStatus # "running" =>
         /\ bStatus = "returned"
         /\ \A k \in 1..Len(bOutcomes) : bOutcomes[k] = "not_connected"
         /\ runWrites = 0

\* A list whose every element has a character that is not white space.
NonBlank(list) ==
  \A i \in 1..Len(list) : \E k \in 1..Len(list[i]) : list[i][k] \notin WhiteSpace

Acceptable(reply) ==
  /\ reply.ok /\ reply.json
  /\ reply.obj.hasInsights /\ NonBlank(reply.obj.insights)
  /\ reply.obj.hasRisks /\ NonBlank(reply.obj.risks)

\* C18: when the extraction answered something that is not JSON, lacks
\* insights or risks, or holds a blank element, the run has failed at the
\* extraction, has sent no mutating request, has created nothing and has
\* accepted no item of the answer.
C18_InvalidExtractionWritesNothing ==
  llmReply # NoReply /\ ~Acceptable(llmReply) =>
    /\ pc = "fatal" /\ failedStep = "extract"
    /\ runWrites = 0 /\ runCreated = 0
    /\ extracted = NoExtract
    /\ insightsFrame = NoFrame /\ risksFrame = NoFrame
    /\ bStatus = "idle" /\ bAttempts = <<>>

C18_Witness ==
  /\ pc = "fatal" /\ failedStep = "extract" /\ execute
  /\ llmReply.json /\ llmReply.obj.hasInsights /\ llmReply.obj.hasRisks
  /\ NonBlank(llmReply.obj.insights) /\ ~NonBlank(llmReply.obj.risks)
  /\ runs = 2 /\ notes # <<>>

\* C19: once getOrCreateFrame or listStickyNotesInFrame has thrown, the run
\* is over: no bulkCreateStickies and no create call follows and no summary
\* is printed; when it was a frame or the first listing that failed, none
\* came before either.
C19_ContainerOrListingFailureIsFatal ==
  failedStep \in {"frame1", "frame2", "list", "verify"} =>
    /\ pc = "fatal"
    /\ summary = NoSummary
    /\ bStatus = "idle"
    /\ ~ENABLED (CallBatch1 \/ CallBatch2 \/ RestBatchItem \/ McpBatchItem \/
                  VerifyAndReport)
    /\ failedStep # "verify" =>
         /\ bAttempts = <<>> /\ runCreated = 0
         /\ created1 = EmptyResults /\ created2 = EmptyResults

C19_Witness ==
  /\ failedStep = "list" /\ pc = "fatal" /\ execute
  /\ runWrites = 2 /\ Len(frames) = PageLimit + 2

AfterBatches == pc = "verify" \/ (pc = "done" /\ execute) \/ failedStep = "verify"

Heard(k) == SubSeq(delivered, reqs[k].from + 1, Len(delivered))

Attached(k) == \E i \in 1..Len(listeners) : listeners[i] = k

\* C13: the transport is connected only if the stream has delivered the
\* whole result line that answers the initialize request (id 1).
C13_ReadyOnlyAfterInitResponse ==
  connected => Includes(delivered, ResultLine(1) \o <<"\n">>)

\* The whole response line of request k has arrived, in whatever chunks: a
\* result line, or for a tool call also an error line.
Received(k) ==
  \/ Includes(Heard(k), ResultLine(k) \o <<"\n">>)
  \/ reqs[k].kind = "call" /\ Includes(Heard(k), ErrorLine(k) \o <<"\n">>)

\* C15: no request (connect's or a tool call's) is still waiting, with its
\* listener attached, once its whole response line has been delivered.
C15_FragmentedLineResolves ==
  \A k \in 1..Len(reqs) :
    Received(k) /\ Attached(k) => reqs[k].state # "pending"

CallIds == {k \in 1..Len(reqs) : reqs[k].kind = "call"}
Unsettled(k) == k <= Len(reqs) /\ reqs[k].state = "pending"
Settled(k) == k <= Len(reqs) /\ reqs[k].state # "pending"

C21_GridPositions ==
  gOut.done =>
    /\ Len(gOut.stickies) = Len(gItems)
    /\ \A i \in 0..(Len(gItems) - 1) :
         LET it == gOut.stickies[i + 1]
         IN /\ it.content = gItems[i + 1]
            /\ 2 * it.x = 2 * gFrame.x - gFrame.width + 2 * gOpts.pad
                            + 2 * (i % gOpts.columns) * (gOpts.noteW + gOpts.gap)
            /\ 2 * it.y = 2 * gFrame.y - gFrame.height + 2 * gOpts.pad
                            + 2 * (i \div gOpts.columns) * (gOpts.noteH + gOpts.gap)

\* Seven distinct texts laid out in three columns: index 6 is in column 0 of
\* row 2.
C21_Witness ==
  /\ gOut.done /\ Len(gItems) = 7 /\ gOpts.columns = 3
  /\ gItems[1] # gItems[7]
  /\ gOut.stickies[7].x = gOut.stickies[1].x
  /\ gOut.stickies[7].y = gOut.stickies[1].y + 2 * (gOpts.noteH + gOpts.gap)

\* C22: in bulkCreateStickies of the stdio transport an item is counted in ok
\* only if its create call was answered with a result; an item whose call
\* was answered with an error envelope is recorded in failed and not in ok.
C22_ErrorEnvelopeIsFailure ==
  (transport = "mcp" /\ bStatus \in {"running", "returned"}) =>
    LET answered == {i \in 1..Len(bOutcomes) : bOutcomes[i] \in {"id", "text", "plain"}}
        refused == {i \in 1..Len(bOutcomes) : bOutcomes[i] = "error"}
    IN /\ bRes.ok = Cardinality(answered)
       /\ \A i \in refused :
            \E k \in 1..Len(bRes.failed) : bRes.failed[k].note = bAttempts[i]

\* C23: the orchestrator is a linear state machine without back-edges: within
\* a run the steps follow one another in the order extraction, ensure
\* containers, list existing, delta and layout, (stop if preview), batch
\* create, verify and report; a step is never repeated or skipped, the only
\* other moves are the stop (preview done, or a step that threw) and the end
\* of the process, and the extraction has answered once the containers are
\* reached.
StepOrder ==
  <<"idle", "transport", "extract", "frame1", "frame2", "list", "delta", "preview",
    "batch1", "batch2", "verify", "done">>
Rank(p) == CHOOSE i \in 1..Len(StepOrder) : StepOrder[i] = IF p = "fatal" THEN "done" ELSE p
C23_LinearNoBackEdges ==
  [][pc' # pc =>
       /\ \/ Rank(pc') = Rank(pc) + 1
          \/ pc' = "fatal" /\ Rank(pc) < Rank("done")
          \/ pc' = "done" /\ pc = "preview" /\ ~execute
          \/ pc' = "idle" /\ pc \in {"done", "fatal"}
       /\ (pc = "extract" /\ pc' = "frame1") =>
            (llmReply = NoReply /\ llmReply' \in Replies(src))
       /\ (pc' # "fatal" /\ Rank(pc') > Rank("extract")) => llmReply' # NoReply]_vars

\* An execute run that went through every step and reported.
C23_Witness ==
  /\ pc = "done" /\ execute /\ failedStep = ""
  /\ summary # NoSummary /\ llmReply \in Replies(src)

\* C24 (as stated): both existing-items queries of a run have completed
\* before any write to the board is attempted in that run.
C24_ListedBeforeAnyWrite == runWrites > 0 => runListed = 2

\* The item writes of the current run: a batch write has been entered.
ItemWriteAttempted ==
  \/ bStatus # "idle" \/ bAttempts # <<>> \/ runCreated > 0
  \/ created1 # EmptyResults \/ created2 # EmptyResults

\* C24 (amended): both existing-items queries of a run have completed before
\* any item write (the creation of a sticky note) is attempted in that run;
\* the creation of a missing container precedes the queries.
C24_ListedBeforeItemWrites == ItemWriteAttempted => runListed = 2

\* The first item of a run is being written after both queries completed, in
\* a run that had created a container before them.
C24_Witness ==
  /\ pc = "batch1" /\ bStatus = "running" /\ Len(bAttempts) = 1
  /\ runListed = 2 /\ runWrites = 3

\* C25: a request of the stdio transport is resolved only by a response
\* bearing its own id: whenever a request is resolved, a response line with
\* that request's id (result or error) is in what its listener was handed; a
\* line with another id, registered or not, resolves nothing.
OwnResponseIn(k, text) == Includes(text, ResultLine(k)) \/ Includes(text, ErrorLine(k))
C25_ResolvedOnlyByOwnId ==
  \A k \in 1..Len(reqs) : reqs[k].state = "resolved" => OwnResponseIn(k, Heard(k))

\* C26: every request of the stdio transport has its registration (its
\* stdout listener) removed when it is settled, by the matching response or
\* by its timeout: once a request is settled and its timer has fired, no
\* listener of it is attached to the running child's stdout. (A promise
\* settles once, so a second resolve or reject changes nothing; a second
\* removal would show as a listener of another request missing.)
C26_RemovedOnceSettled ==
  \A k \in 1..Len(reqs) :
    (reqs[k].state # "pending" /\ k \notin timers /\ process) => ~Attached(k)

\* C27: every request the stdio transport writes to the child's stdin, the
\* initialize request included, is written after the listener that will
\* receive its response has been attached to stdout.
C27_RegisteredBeforeSent == \A i \in 1..Len(stdin) : stdin[i].registered

\* C28: a pending request is resolved only from a complete line: whenever a
\* request is resolved, what its listener was handed holds a response line
\* followed by its newline.
TerminatedLineIn(text) ==
  \E k \in 1..Len(IdTok) :
    \/ Includes(text, ResultLine(k) \o <<"\n">>)
    \/ Includes(text, ErrorLine(k) \o <<"\n">>)
C28_ResolvedOnlyFromWholeLine ==
  \A k \in 1..Len(reqs) : reqs[k].state = "resolved" => TerminatedLineIn(Heard(k))

\* C29: a connect that was rejected with the connection timeout leaves the
\* transport not connected, also when the initialize response arrives
\* afterwards (connect is invoked once in the model).
C29_FailedConnectStaysFailed ==
  (Len(reqs) >= 1 /\ reqs[1].kind = "connect" /\ reqs[1].state = "rejected")
    => ~connected

\* C30: item creation inside a batch write is sequential on both
\* transports: at most one create request is in flight, it is the request of
\* the item that follows the items already settled, and while the Risks
\* batch runs every item of the Insights batch has settled and is in the
\* result the Insights batch returned.
C30_SequentialCreation ==
  /\ Cardinality(bInFlight) <= 1
  /\ \A i \in bInFlight : i = Len(bAttempts) + 1 /\ bStatus = "running"
  /\ Len(bAttempts) = Len(bOutcomes)
  /\ (pc = "batch1" /\ bStatus = "running") => bNotes = insightsNotes
  /\ (pc = "batch2" /\ bStatus = "running") =>
       /\ bNotes = risksNotes
       /\ created1.ok + Len(created1.failed) = Len(insightsNotes)

\* The Risks batch has its first request in flight after an Insights batch
\* of two items has returned.
C30_Witness ==
  /\ pc = "batch2" /\ bInFlight = {1} /\ bAttempts = <<>>
  /\ Len(insightsNotes) = 2 /\ created1.ok + Len(created1.failed) = 2

\* The result of creating the notes ns one after the other with no chunking,
\* the k-th create ending as outs[k], the board handing out ids from id on.
RECURSIVE Unchunked(_, _, _, _)
Unchunked(res, ns, outs, id) ==
  IF ns = <<>> THEN res
  ELSE Unchunked(RestRecord(res, Head(ns), Head(outs), id), Tail(ns), Tail(outs),
                 IF OnBoard(Head(outs)) THEN id + 1 ELSE id)

\* C31: chunkSize does not change what the REST bulkCreateStickies does: for
\* every list and every chunkSize >= 1 the create calls are the items of the
\* list in order, the result is the one of the unchunked loop with the same
\* outcomes, and the call terminates: every step handles one more item until
\* all are handled, and then it returns.
C31_ChunkSizeIrrelevant ==
  (transport = "rest" /\ bStatus \in {"running", "returned"} /\ bChunkSize >= 1) =>
    /\ bAttempts = SubSeq(bNotes, 1, Len(bOutcomes))
    /\ bRes = Unchunked(EmptyResults, bAttempts, bOutcomes, nextId - runCreated)
    /\ bStatus = "returned" => Len(bOutcomes) = Len(bNotes)
    /\ bStatus = "running" =>
         IF Len(bOutcomes) < Len(bNotes)
           THEN ENABLED BatchIssue \/ ENABLED RestBatchItem
           ELSE ENABLED BatchReturn

\* Three notes in chunks of two: the second chunk holds the third note alone;
\* the second create failed.
C31_Witness ==
  /\ transport = "rest" /\ bStatus = "returned" /\ bChunkSize = 2
  /\ Len(bNotes) = 3 /\ bOutcomes = <<"created", "http_error", "created">>
  /\ bRes.created = <<nextId - 2, nextId - 1>>

\* C33: backoff sleeps 500 ms before the 2nd attempt and twice the previous
\* delay before each further attempt (500, 1000, 2000, 4000), never more
\* than 8000 ms and never after the last attempt; the warning printed for a
\* retry names the attempt that failed and the delay slept for that retry.
ExpectedSleeps == [i \in 1..(DefaultMaxAttempts - 1) |-> Min(InitialDelay * 2 ^ (i - 1), MaxDelay)]
C33_RetryDelaysAndWarning ==
  /\ Len(boSleeps) <= DefaultMaxAttempts - 1
  /\ boSleeps = SubSeq(ExpectedSleeps, 1, Len(boSleeps))
  /\ \A i \in 1..Len(boSleeps) : boSleeps[i] <= MaxDelay
  /\ boState \in {"returned", "thrown"} => Len(boSleeps) = boCalls - 1
  /\ \A i \in 1..Len(boLog) :
       boLog[i].attempt = i /\ boLog[i].delay = boSleeps[i]

\* C34: a run on the stdio transport has terminated its child process when
\* it ends, whether it ends after the preview, after the report or with a
\* fatal failure.
C34_ChildTerminatedAtRunEnd ==
  (transport = "mcp" /\ pc \in {"done", "fatal"}) => ~process

\* Some item of placed has the position of a listed item that carries the
\* marker of the current run.
Overlaid(placed, existing) ==
  \E k \in 1..Len(placed), j \in 1..Len(existing) :
    /\ hasRunId(existing[j], extracted.runId)
    /\ placed[k].x = existing[j].x /\ placed[k].y = existing[j].y

\* C32: in any run, no newly laid-out item of a container is given the
\* position of an item of that container that already carries the marker of
\* the current run.
C32_NoPositionOfExistingItem ==
  pc \in BeforeReport =>
    /\ ~Overlaid(insightsNotes, existingInsights)
    /\ ~Overlaid(risksNotes, existingRisks)

====
